---- MODULE Spec2Model ----
(***************************************************************************)
(* The Esta virtual machine (src/vm/mod.rs): a stack machine over one      *)
(* numeric type T.  T is modelled as a two's-complement signed integer of  *)
(* W bits (the tests instantiate T = i64).                                 *)
(***************************************************************************)
EXTENDS Integers, Sequences, FiniteSets, TLC

VARIABLES stack, mem, inst, data, pc, ir, result, overflow_checks, runs, executed, prev

vars == <<stack, mem, inst, data, pc, ir, result, overflow_checks, runs, executed, prev>>

(* ---------------------------------------------------------------- bounds *)

W == 4

MaxLen == 3

MaxRuns == 2

LiveLen == 2

(* ------------------------------------------------------ the numeric type *)

RECURSIVE Pow2(_)

Pow2(n) == IF n = 0 THEN 1 ELSE 2 * Pow2(n - 1)

MinT == 0 - Pow2(W - 1)

MaxT == Pow2(W - 1) - 1

Zero == 0

One == 1

InT(v) == MinT <= v /\ v <= MaxT

Wrap(v) == ((v - MinT) % Pow2(W)) + MinT

Abs(v) == IF v < 0 THEN 0 - v ELSE v

\* Rust's integer division truncates toward zero.
TruncDiv(a, b) == IF (a < 0) = (b < 0) THEN Abs(a) \div Abs(b) ELSE 0 - (Abs(a) \div Abs(b))

TruncRem(a, b) == a - b * TruncDiv(a, b)

(* ------------------------------------------------------------- outcomes *)

EmptyStack == "Empty stack"

PanicIndex == "panic: index out of bounds"

PanicUnwrapNone == "panic: called Option::unwrap() on a None value"

PanicOverflow == "panic: arithmetic overflow"

PanicDivZero == "panic: attempt to divide by zero"

PanicRemZero == "panic: attempt to calculate the remainder with a divisor of zero"

Panics == {PanicIndex, PanicUnwrapNone, PanicOverflow, PanicDivZero, PanicRemZero}

Val(v) == [ok |-> TRUE, v |-> v]

Panic(p) == [ok |-> FALSE, p |-> p]

\* + - * on a primitive integer: a panic when the build checks overflow,
\* the wrapped value when it does not.
Arith(v) == IF InT(v) THEN Val(v) ELSE IF overflow_checks THEN Panic(PanicOverflow) ELSE Val(Wrap(v))

(* --------------------------------------------------------- instructions *)

\* Option<T>
None == <<>>

Some(v) == <<v>>

BinaryOps == {"ADD", "SUB", "MUL", "DIV", "MOD", "AND", "OR", "EQ", "NEQ", "LE", "LEQ", "GE", "GEQ"}

UnaryOps == {"NEG", "NOT"}

ByteCode == {"HALT", "LOADC"} \cup BinaryOps \cup UnaryOps

new_inst(op) == [inst |-> op, data |-> None]

new_data(op, v) == [inst |-> op, data |-> Some(v)]

Values == {MinT, 0 - 1, 0, 1, 2}

Insts == {new_inst(op) : op \in ByteCode} \cup {new_data("LOADC", v) : v \in Values}

NoInst == [inst |-> "none", data |-> None]

(* -------------------------------------------------- conversions of T/bool *)

bool_to_t(cond) == IF cond THEN One ELSE Zero

t_to_boolNonZero(cond) == cond # Zero

t_to_bool(cond) == cond = One

(* ------------------------------------------------------ stack primitives *)

push(s, v) == Append(s, v)

top(s) == IF s = <<>> THEN [ok |-> FALSE, err |-> EmptyStack] ELSE [ok |-> TRUE, v |-> s[Len(s)]]

popKeep(s, d) == IF top(s).ok THEN [ok |-> TRUE, v |-> top(s).v, stack |-> s, data |-> top(s).v] ELSE [ok |-> FALSE, err |-> top(s).err, stack |-> s, data |-> d]

\* pop on the pair (stack, data): the popped value is stored in data.
pop(s, d) == IF top(s).ok THEN [ok |-> TRUE, v |-> top(s).v, stack |-> SubSeq(s, 1, Len(s) - 1), data |-> top(s).v] ELSE [ok |-> FALSE, err |-> top(s).err, stack |-> s, data |-> d]

(* ------------------------------------------------- the arms of the match *)
\* In every binary arm a is the value of the first pop (the left operand of
\* the Rust expression) and b the value of the second pop.

ADD(a, b) == Arith(a + b)

SUBSwapped(a, b) == Arith(b - a)

SUB(a, b) == Arith(a - b)

MUL(a, b) == Arith(a * b)

DIV(a, b) == IF b = 0 THEN Panic(PanicDivZero) ELSE IF a = MinT /\ b = 0 - 1 THEN Panic(PanicOverflow) ELSE Val(TruncDiv(a, b))

MOD(a, b) == IF b = 0 THEN Panic(PanicRemZero) ELSE IF a = MinT /\ b = 0 - 1 THEN Panic(PanicOverflow) ELSE Val(TruncRem(a, b))

ANDLeft(a, b) == Val(bool_to_t(t_to_bool(a) /\ b # Zero))

AND(a, b) == Val(bool_to_t(t_to_bool(a) /\ t_to_bool(b)))

OR(a, b) == Val(bool_to_t(t_to_bool(a) \/ t_to_bool(b)))

EQ(a, b) == Val(bool_to_t(a = b))

NEQSame(a, b) == Val(bool_to_t(a = b))

NEQ(a, b) == Val(bool_to_t(a # b))

LESwapped(a, b) == Val(bool_to_t(b < a))

LE(a, b) == Val(bool_to_t(a < b))

LEQ(a, b) == Val(bool_to_t(a <= b))

GE(a, b) == Val(bool_to_t(a < b))

GEQ(a, b) == Val(bool_to_t(a <= b))

checked_negAbs(a) == IF a = MinT THEN None ELSE Some(Abs(a))

checked_neg(a) == IF a = MinT THEN None ELSE Some(0 - a)

unwrap(o) == IF o = None THEN Panic(PanicUnwrapNone) ELSE Val(o[1])

NEG(a) == unwrap(checked_neg(a))

NOTNonZero(a) == Val(bool_to_t(a = Zero))

NOT(a) == Val(bool_to_t(~t_to_bool(a)))

(* ------------------------------------------------------------------ new *)

LoadC(v) == new_data("LOADC", v)

\* Every instruction sequence of at most MaxLen instructions (LOADC without
\* an operand included: new performs no validation).
ShortPrograms == UNION {[1..n -> Insts] : n \in 0..MaxLen}

\* The shapes of the test suite: operands, operator(s), HALT.
BinaryTests == {<<LoadC(x), LoadC(y), new_inst(op), new_inst("HALT")>> : x \in Values, y \in Values, op \in BinaryOps}

UnaryTests == {<<LoadC(x), new_inst(o1), new_inst(o2), new_inst("HALT")>> : x \in Values, o1 \in UnaryOps, o2 \in UnaryOps}

DeepTests == {<<LoadC(x), LoadC(y), LoadC(z), new_inst(op), new_inst("HALT")>> : x \in Values, y \in Values, z \in {0, 2}, op \in BinaryOps \cup UnaryOps}

Programs == ShortPrograms \cup BinaryTests \cup UnaryTests \cup DeepTests

\* The programs of the termination check: every sequence of at most LiveLen
\* instructions, and the test shapes.
LivePrograms == UNION {[1..n -> Insts] : n \in 0..LiveLen} \cup BinaryTests \cup UnaryTests \cup DeepTests

new(program) ==
    /\ inst = program
    /\ stack = <<>>
    /\ mem = <<>>
    /\ data = Zero
    /\ pc = 0
    /\ ir = NoInst
    /\ result = "none"
    /\ runs = 0
    /\ executed = <<>>
    /\ prev = <<>>

Init == overflow_checks \in BOOLEAN /\ \E program \in Programs : new(program)

InitLive == overflow_checks \in BOOLEAN /\ \E program \in LivePrograms : new(program)

(* ------------------------------------------------------------------ run *)

Returned == {"Ok", EmptyStack}

RunReset ==
    /\ result \in {"none"} \cup Returned
    /\ runs < MaxRuns
    /\ result' = "running"
    /\ runs' = runs + 1
    /\ executed' = <<>>
    /\ prev' = stack
    /\ ir' = NoInst
    /\ pc' = 0
    /\ UNCHANGED <<stack, mem, inst, data, overflow_checks>>

\* A call of run on a VM that is not running: a fresh one, or one whose
\* earlier run returned.  Nothing is reset.
Run ==
    /\ result \in {"none"} \cup Returned
    /\ runs < MaxRuns
    /\ result' = "running"
    /\ runs' = runs + 1
    /\ executed' = <<>>
    /\ prev' = stack
    /\ ir' = NoInst
    /\ UNCHANGED <<stack, mem, inst, data, pc, overflow_checks>>

NextPcStuck(p) == p

NextPcSkip(p) == p + 2

NextPc(p) == p + 1

\* let ir = &self.inst[self.pc]; self.pc += 1;
Fetch(op) ==
    /\ result = "running"
    /\ pc < Len(inst)
    /\ inst[pc + 1].inst = op
    /\ ir' = inst[pc + 1]
    /\ pc' = NextPc(pc)
    /\ executed' = Append(executed, pc)
    /\ prev' = stack
    /\ UNCHANGED <<mem, inst, overflow_checks, runs>>

\* self.inst[self.pc] with pc past the end panics before pc is advanced.
FetchOutOfBounds ==
    /\ result = "running"
    /\ pc >= Len(inst)
    /\ result' = PanicIndex
    /\ UNCHANGED <<stack, mem, inst, data, pc, ir, overflow_checks, runs, executed, prev>>

ExecHALTContinue ==
    /\ Fetch("HALT")
    /\ result' = "running"
    /\ UNCHANGED <<stack, data>>

ExecHALT ==
    /\ Fetch("HALT")
    /\ result' = "Ok"
    /\ UNCHANGED <<stack, data>>

ExecLOADC ==
    /\ Fetch("LOADC")
    /\ LET r == unwrap(inst[pc + 1].data)
       IN IF r.ok
          THEN stack' = push(stack, r.v) /\ result' = "running"
          ELSE stack' = stack /\ result' = r.p
    /\ UNCHANGED data

\* let res = self.pop()? OP self.pop()?; self.push(res);
Binary(r1, r2, res) ==
    IF ~r1.ok
    THEN stack' = r1.stack /\ data' = r1.data /\ result' = r1.err
    ELSE IF ~r2.ok
    THEN stack' = r2.stack /\ data' = r2.data /\ result' = r2.err
    ELSE IF ~res.ok
    THEN stack' = r2.stack /\ data' = r2.data /\ result' = res.p
    ELSE stack' = push(r2.stack, res.v) /\ data' = r2.data /\ result' = "running"

Unary(r1, res) ==
    IF ~r1.ok
    THEN stack' = r1.stack /\ data' = r1.data /\ result' = r1.err
    ELSE IF ~res.ok
    THEN stack' = r1.stack /\ data' = r1.data /\ result' = res.p
    ELSE stack' = push(r1.stack, res.v) /\ data' = r1.data /\ result' = "running"

Pop1 == pop(stack, data)

Pop2 == pop(Pop1.stack, Pop1.data)

ExecADD == Fetch("ADD") /\ Binary(Pop1, Pop2, ADD(Pop1.v, Pop2.v))

ExecSUB == Fetch("SUB") /\ Binary(Pop1, Pop2, SUB(Pop1.v, Pop2.v))

ExecMUL == Fetch("MUL") /\ Binary(Pop1, Pop2, MUL(Pop1.v, Pop2.v))

ExecDIV == Fetch("DIV") /\ Binary(Pop1, Pop2, DIV(Pop1.v, Pop2.v))

ExecMOD == Fetch("MOD") /\ Binary(Pop1, Pop2, MOD(Pop1.v, Pop2.v))

ExecAND == Fetch("AND") /\ Binary(Pop1, Pop2, AND(Pop1.v, Pop2.v))

ExecOR == Fetch("OR") /\ Binary(Pop1, Pop2, OR(Pop1.v, Pop2.v))

ExecEQ == Fetch("EQ") /\ Binary(Pop1, Pop2, EQ(Pop1.v, Pop2.v))

ExecNEQ == Fetch("NEQ") /\ Binary(Pop1, Pop2, NEQ(Pop1.v, Pop2.v))

ExecLE == Fetch("LE") /\ Binary(Pop1, Pop2, LE(Pop1.v, Pop2.v))

ExecLEQ == Fetch("LEQ") /\ Binary(Pop1, Pop2, LEQ(Pop1.v, Pop2.v))

ExecGE == Fetch("GE") /\ Binary(Pop1, Pop2, GE(Pop1.v, Pop2.v))

ExecGEQ == Fetch("GEQ") /\ Binary(Pop1, Pop2, GEQ(Pop1.v, Pop2.v))

ExecNEG == Fetch("NEG") /\ Unary(Pop1, NEG(Pop1.v))

ExecNOT == Fetch("NOT") /\ Unary(Pop1, NOT(Pop1.v))

Step ==
    \/ FetchOutOfBounds
    \/ ExecHALT
    \/ ExecLOADC
    \/ ExecADD
    \/ ExecSUB
    \/ ExecMUL
    \/ ExecDIV
    \/ ExecMOD
    \/ ExecAND
    \/ ExecOR
    \/ ExecEQ
    \/ ExecNEQ
    \/ ExecLE
    \/ ExecLEQ
    \/ ExecGE
    \/ ExecGEQ
    \/ ExecNEG
    \/ ExecNOT

Next == Run \/ Step

Spec == Init /\ [][Next]_vars

\* run is one synchronous loop: once called it keeps stepping.
FairSpec == InitLive /\ [][Next]_vars /\ WF_vars(Step)

(* ============================================================== claims *)

\* An instruction has been fetched in the current run: ir is that
\* instruction and prev the stack it found.
Acted == executed # <<>>

\* The last fetched instruction completed without an error or a fault.
Succeeded == Acted /\ result \in {"running", "Ok"}

\* First-popped and second-popped value of the last instruction.
PrevA == prev[Len(prev)]

PrevB == prev[Len(prev) - 1]

Below(s, n) == SubSeq(s, 1, Len(s) - n)

TopOf(s) == s[Len(s)]

ErrOverflow == "Arithmetic overflow"

Underflows == (ir.inst \in BinaryOps /\ Len(prev) < 2) \/ (ir.inst \in UnaryOps /\ Len(prev) = 0)

\* C1: an operator that finds too few operands makes run return the
\* stack-underflow error and leaves the operand stack as it found it.
C1_UnderflowKeepsStack == (Acted /\ Underflows) => (result = EmptyStack /\ stack = prev)

\* C2: NEG of the minimum value makes run return an arithmetic-overflow
\* error (no fault, no wrapped value pushed).
C2_NegOverflowIsErr == (Acted /\ ir.inst = "NEG" /\ prev # <<>> /\ PrevA = MinT) => (result = ErrOverflow /\ stack = Below(prev, 1))

\* C3: GE pops a then b and pushes one if a > b, zero otherwise; its result
\* differs from LE's on the same operands whenever a # b.
C3_GeIsGreater == (Acted /\ ir.inst = "GE" /\ Len(prev) >= 2) => (result = "running" /\ stack = Append(Below(prev, 2), bool_to_t(PrevA > PrevB)) /\ (PrevA # PrevB => TopOf(stack) # LE(PrevA, PrevB).v))

\* C4: GEQ pops a then b and pushes one if a >= b, zero otherwise; its
\* result differs from LEQ's on the same operands whenever a # b.
C4_GeqIsGreaterOrEqual == (Acted /\ ir.inst = "GEQ" /\ Len(prev) >= 2) => (result = "running" /\ stack = Append(Below(prev, 2), bool_to_t(PrevA >= PrevB)) /\ (PrevA # PrevB => TopOf(stack) # LEQ(PrevA, PrevB).v))

\* Every LOADC carries an operand.
LoadsCarryOperand == \A i \in 1..Len(inst) : inst[i].inst = "LOADC" => inst[i].data # None

\* C5: a well-formed program (operands present, no fetch past the end) ends
\* Ok, with the stack-underflow error or with the arithmetic-overflow
\* error, and in no other way.
C5_OnlyDefinedOutcomes == (LoadsCarryOperand /\ result # PanicIndex) => result \in {"none", "running", "Ok", EmptyStack, ErrOverflow}

Distinct(s) == \A i \in 1..Len(s) : \A j \in 1..Len(s) : i # j => s[i] # s[j]

\* C6: run on a program of N instructions, with or without a HALT, ends
\* (by returning or, at the end of a program without HALT, by the fetch
\* fault) having executed at most N instructions, none of them twice.
C6_Terminates == [](Len(executed) <= Len(inst) /\ Distinct(executed)) /\ ((result = "running") ~> (result # "running"))

\* A program without HALT (or resumed past it) ended after all of its
\* instructions ran.
C6_Witness == result = PanicIndex /\ Len(inst) >= 2 /\ Len(executed) = Len(inst) /\ runs = 1

\* C7 as stated: whenever run is about to fetch, pc indexes an instruction.
C7_FetchInRange == result = "running" => (0 <= pc /\ pc < Len(inst))

\* C7 amended: whenever run is about to fetch, 0 <= pc <= N; every
\* instruction read has an index below N; the fetch at pc = N faults
\* (index out of bounds) without advancing pc, and no fetch beyond N occurs.
C7_FetchAtMostN ==
    /\ 0 <= pc /\ pc <= Len(inst)
    /\ \A i \in 1..Len(executed) : 0 <= executed[i] /\ executed[i] < Len(inst)
    /\ result = PanicIndex => pc = Len(inst)
    /\ (result = "running" /\ pc = Len(inst)) => (ENABLED FetchOutOfBounds /\ ~ENABLED ExecHALT)

C7_Witness == result = PanicIndex /\ pc = Len(inst) /\ Len(inst) >= 2 /\ runs = 1

\* C8: a successful LOADC appends its operand; a successful binary operator
\* replaces the two topmost elements by one; a successful unary operator
\* replaces the topmost element; HALT changes nothing; everything below the
\* consumed operands stays as it was.
C8_FrameEffect ==
    Succeeded =>
        /\ ir.inst = "LOADC" => stack = Append(prev, ir.data[1])
        /\ ir.inst \in BinaryOps => (Len(prev) >= 2 /\ Len(stack) = Len(prev) - 1 /\ Below(stack, 1) = Below(prev, 2))
        /\ ir.inst \in UnaryOps => (Len(prev) >= 1 /\ Len(stack) = Len(prev) /\ Below(stack, 1) = Below(prev, 1))
        /\ ir.inst = "HALT" => stack = prev

C8_Witness == Succeeded /\ ir.inst \in BinaryOps /\ Len(prev) = 3 /\ Len(stack) = 2 /\ stack[1] = prev[1] /\ prev[1] # 0

BoolOps == {"AND", "OR", "EQ", "NEQ", "LE", "LEQ", "GE", "GEQ", "NOT"}

\* C9: AND pushes one iff both popped values equal one, OR iff at least
\* one does, NOT pushes zero iff the popped value equals one; every logical
\* and relational operator pushes zero or one.
C9_BooleanEncoding ==
    Succeeded =>
        /\ ir.inst = "AND" => (TopOf(stack) = 1 <=> (PrevA = 1 /\ PrevB = 1))
        /\ ir.inst = "OR" => (TopOf(stack) = 1 <=> (PrevA = 1 \/ PrevB = 1))
        /\ ir.inst = "NOT" => (TopOf(stack) = 0 <=> PrevA = 1) /\ (TopOf(stack) = 1 <=> PrevA # 1)
        /\ ir.inst \in BoolOps => TopOf(stack) \in {0, 1}

C9_Witness == Succeeded /\ ir.inst = "AND" /\ PrevA = 2 /\ PrevB = 1 /\ TopOf(stack) = 0

IsCompare(op) == Len(inst) = 4 /\ inst[1].inst = "LOADC" /\ inst[1].data # None /\ inst[2].inst = "LOADC" /\ inst[2].data # None /\ inst[3] = new_inst(op) /\ inst[4] = new_inst("HALT")

\* C10: LE (LEQ) compares first-popped < (<=) second-popped: the program
\* [LOADC x, LOADC y, LE, HALT] ends Ok with [one] if y < x, else [zero].
C10_LeOrder ==
    /\ (Succeeded /\ ir.inst = "LE") => TopOf(stack) = bool_to_t(PrevA < PrevB)
    /\ (Succeeded /\ ir.inst = "LEQ") => TopOf(stack) = bool_to_t(PrevA <= PrevB)
    /\ (IsCompare("LE") /\ runs = 1 /\ pc >= 3) => (result = (IF pc = 3 THEN "running" ELSE "Ok") /\ stack = <<IF inst[2].data[1] < inst[1].data[1] THEN 1 ELSE 0>>)
    /\ (IsCompare("LEQ") /\ runs = 1 /\ pc >= 3) => (result = (IF pc = 3 THEN "running" ELSE "Ok") /\ stack = <<IF inst[2].data[1] <= inst[1].data[1] THEN 1 ELSE 0>>)

C10_Witness == IsCompare("LE") /\ result = "Ok" /\ inst[1].data = Some(1) /\ inst[2].data = Some(0) /\ stack = <<1>>

(* ------------------------------------------- whole runs of test programs *)

\* The first run on the VM is over.
FirstRunDone == runs = 1 /\ result \notin {"none", "running"}

\* Operands of the first and the second LOADC of a test program.
X == inst[1].data[1]

Y == inst[2].data[1]

IsUnary1(o1) == Len(inst) = 3 /\ inst[1].inst = "LOADC" /\ inst[1].data # None /\ inst[2] = new_inst(o1) /\ inst[3] = new_inst("HALT")

IsUnary2(o1, o2) == Len(inst) = 4 /\ inst[1].inst = "LOADC" /\ inst[1].data # None /\ inst[2] = new_inst(o1) /\ inst[3] = new_inst(o2) /\ inst[4] = new_inst("HALT")

ArithOps == {"ADD", "SUB", "MUL", "DIV", "MOD"}

\* The exact integer result of a OP b.
Exact(op, a, b) == CASE op = "ADD" -> a + b [] op = "SUB" -> a - b [] op = "MUL" -> a * b [] op = "DIV" -> TruncDiv(a, b) [] op = "MOD" -> TruncRem(a, b)

\* C11: for all x, y (divisor nonzero for DIV and MOD) the program
\* [LOADC x, LOADC y, OP, HALT] with OP an arithmetic operator ends Ok with
\* the one-element stack [a OP b], a = y first-popped, b = x second-popped.
C11_ArithResult == \A op \in ArithOps : (IsCompare(op) /\ (op \in {"DIV", "MOD"} => X # 0) /\ FirstRunDone) => (result = "Ok" /\ stack = <<Exact(op, Y, X)>>)

\* C12: [LOADC a, LOADC b, EQ, HALT] and [LOADC a, LOADC b, NEQ, HALT]
\* both end Ok with one element; EQ leaves one exactly when a = b and NEQ
\* leaves one exactly when EQ leaves zero.
C12_EqNeqComplement ==
    /\ (IsCompare("EQ") /\ FirstRunDone) => (result = "Ok" /\ stack = <<IF X = Y THEN 1 ELSE 0>>)
    /\ (IsCompare("NEQ") /\ FirstRunDone) => (result = "Ok" /\ stack = <<IF X = Y THEN 0 ELSE 1>>)

C12_Witness == IsCompare("NEQ") /\ FirstRunDone /\ X = 2 /\ Y = 2 /\ stack = <<0>>

\* C13: AND and OR give the same final stack for [LOADC a, LOADC b, OP,
\* HALT] and for the operands exchanged, for all values; AND(1,1)=1,
\* AND(1,0)=0, AND(0,0)=0, OR(1,0)=1, OR(0,0)=0.
C13_AndOrCommute ==
    /\ (IsCompare("AND") /\ FirstRunDone) => (result = "Ok" /\ stack = <<IF X = 1 /\ Y = 1 THEN 1 ELSE 0>> /\ stack = <<AND(X, Y).v>>)
    /\ (IsCompare("OR") /\ FirstRunDone) => (result = "Ok" /\ stack = <<IF X = 1 \/ Y = 1 THEN 1 ELSE 0>> /\ stack = <<OR(X, Y).v>>)

C13_Witness == IsCompare("AND") /\ FirstRunDone /\ X = 1 /\ Y = 2 /\ stack = <<0>>

\* C14: [LOADC v, NOT, NOT, HALT] ends Ok with [v] for v zero or one and
\* with [zero] for every other v.
C14_DoubleNot == (IsUnary2("NOT", "NOT") /\ FirstRunDone) => (result = "Ok" /\ stack = <<IF X \in {0, 1} THEN X ELSE 0>>)

C14_Witness == IsUnary2("NOT", "NOT") /\ FirstRunDone /\ X = 2 /\ stack = <<0>>

\* C15: for v other than the minimum, [LOADC v, NEG, NEG, HALT] ends Ok
\* with [v] and [LOADC v, NEG, HALT] ends Ok with [-v].
C15_DoubleNeg ==
    /\ (IsUnary2("NEG", "NEG") /\ X # MinT /\ FirstRunDone) => (result = "Ok" /\ stack = <<X>>)
    /\ (IsUnary1("NEG") /\ X # MinT /\ FirstRunDone) => (result = "Ok" /\ stack = <<0 - X>>)

C15_Witness == IsUnary2("NEG", "NEG") /\ FirstRunDone /\ X = 2 /\ stack = <<2>>

\* C16: the first run on a VM executes indices 0, 1, 2, ... in order, each
\* once, and stops at the first HALT it executes (Ok) or at the first
\* instruction that fails; nothing after that instruction is executed.  A
\* program that begins with HALT ends Ok with an empty stack.
C16_InOrderUntilStop ==
    runs = 1 =>
        /\ \A i \in 1..Len(executed) : executed[i] = i - 1
        /\ pc = Len(executed)
        /\ \A i \in 1..(Len(executed) - 1) : inst[i].inst # "HALT"
        /\ result = "Ok" <=> (Acted /\ ir.inst = "HALT")
        /\ result # "running" => ~ENABLED Step
        /\ (Len(inst) >= 1 /\ inst[1].inst = "HALT" /\ result # "running") => (result = "Ok" /\ stack = <<>> /\ executed = <<0>>)

C16_Witness == runs = 1 /\ result = "Ok" /\ executed = <<0, 1>> /\ Len(inst) = 3 /\ stack # <<>>

\* C17 as stated: every call of run begins fetching at program counter 0.
C17_RunStartsAtZero == (result = "running" /\ executed = <<>>) => pc = 0

\* C17 amended: the first call of run on a VM begins fetching at 0; a call
\* made after an earlier run returned does not reset the counter and begins
\* where that run left it, which is never 0.
C17_RunKeepsPc == [][(result # "running" /\ result' = "running") => (pc' = pc /\ (runs = 0 => pc' = 0) /\ (runs > 0 => pc' > 0))]_vars

C17_Witness == runs = 2 /\ Acted /\ executed[1] > 0 /\ result = "Ok"

\* C18 as stated: SUB pushes second-popped - first-popped, so
\* [LOADC x, LOADC y, SUB, HALT] leaves [x - y].
C18_SecondPoppedIsLeft == (IsCompare("SUB") /\ FirstRunDone /\ InT(X - Y) /\ InT(Y - X)) => stack = <<X - Y>>

\* C18 amended: SUB, DIV, MOD, LE and LEQ take the first-popped value as
\* left operand (first OP second); GE and GEQ push one iff second-popped >
\* (>=) first-popped.  [LOADC x, LOADC y, SUB, HALT] leaves [y - x] when
\* that is representable; otherwise it faults (overflow-checking build) or
\* leaves the wrapped difference.
C18_FirstPoppedIsLeft ==
    /\ Succeeded =>
        /\ ir.inst = "SUB" => TopOf(stack) = Wrap(PrevA - PrevB)
        /\ ir.inst = "DIV" => TopOf(stack) = TruncDiv(PrevA, PrevB)
        /\ ir.inst = "MOD" => TopOf(stack) = TruncRem(PrevA, PrevB)
        /\ ir.inst = "LE" => TopOf(stack) = bool_to_t(PrevA < PrevB)
        /\ ir.inst = "LEQ" => TopOf(stack) = bool_to_t(PrevA <= PrevB)
        /\ ir.inst = "GE" => TopOf(stack) = bool_to_t(PrevB > PrevA)
        /\ ir.inst = "GEQ" => TopOf(stack) = bool_to_t(PrevB >= PrevA)
    /\ (IsCompare("SUB") /\ FirstRunDone) =>
        IF InT(Y - X) THEN result = "Ok" /\ stack = <<Y - X>>
        ELSE IF overflow_checks THEN result = PanicOverflow
        ELSE result = "Ok" /\ stack = <<Wrap(Y - X)>>

C18_Witness == IsCompare("SUB") /\ FirstRunDone /\ X = 2 /\ Y = 0 - 1 /\ stack = <<0 - 3>>

\* C19: pc starts at 0, never decreases and grows by exactly one with each
\* fetch: once the instruction at index i has been fetched (and has halted,
\* succeeded or failed) pc is i + 1; inst never changes.
C19_PcAdvances ==
    /\ pc = 0
    /\ [][pc' >= pc /\ inst' = inst /\ (IF executed' = Append(executed, pc) THEN pc' = pc + 1 ELSE pc' = pc)]_vars
    /\ [](Acted => pc = executed[Len(executed)] + 1)

C19_Witness == result = EmptyStack /\ Acted /\ executed[Len(executed)] = 2 /\ pc = 3

\* depth(k): LOADCs minus binary operators among the first k instructions.
Depth(k) == Cardinality({i \in 1..k : inst[i].inst = "LOADC"}) - Cardinality({i \in 1..k : inst[i].inst \in BinaryOps})

\* Position (from 1) of the first HALT, Len(inst) + 1 without one.
FirstHalt == IF \E i \in 1..Len(inst) : inst[i].inst = "HALT" THEN CHOOSE i \in 1..Len(inst) : inst[i].inst = "HALT" /\ \A j \in 1..(i - 1) : inst[j].inst # "HALT" ELSE Len(inst) + 1

StarvedAt(i) == (inst[i].inst \in BinaryOps /\ Depth(i - 1) < 2) \/ (inst[i].inst \in UnaryOps /\ Depth(i - 1) < 1)

\* Position (from 1) of the first starved operator before the first HALT, 0
\* without one.
FirstStarved == IF \E i \in 1..(FirstHalt - 1) : StarvedAt(i) THEN CHOOSE i \in 1..(FirstHalt - 1) : StarvedAt(i) /\ \A j \in 1..(i - 1) : ~StarvedAt(j) ELSE 0

\* C20: the first run returns stack-underflow at the first operator before
\* the first HALT that the opcode counts leave short of operands; without
\* one it never returns stack-underflow and the stack at HALT has depth
\* many elements.
C20_UnderflowByCounts ==
    (FirstRunDone /\ LoadsCarryOperand) =>
        IF FirstStarved # 0
        THEN result = EmptyStack /\ pc = FirstStarved
        ELSE result # EmptyStack /\ (result = "Ok" => Len(stack) = Depth(FirstHalt - 1))

====
